---- MODULE Spec2Model ----
(***************************************************************************)
(* Model of the gardening-assistant backend (src/app.py): the three POST   *)
(* handlers /ask, /identify and /diagnose, the weather helper and the chat *)
(* helper.  Each handler is one action; the outcome of every outbound call *)
(* (weather provider, chat API, PlantNet) is an input chosen by the        *)
(* environment.  Python strings are sequences of tokens: a request's query *)
(* is a sequence of one-character strings, a string literal of the source  *)
(* is one token.                                                           *)
(***************************************************************************)
EXTENDS Integers, Sequences, FiniteSets, TLC

\* ---------------------------------------------------------------- bounds
MaxLen == 3          \* longest query string of a request
MaxResults == 2      \* longest PlantNet result list

\* ------------------------------------------------------- python strings
Chars == {" ", "a"}

Strings == UNION {[1..n -> Chars] : n \in 0..MaxLen}

IsSpace(c) == c = " "

RECURSIVE lstrip(_)
lstrip(s) == IF s # <<>> /\ IsSpace(Head(s)) THEN lstrip(Tail(s)) ELSE s

RECURSIVE rstrip(_)
rstrip(s) ==
  IF s # <<>> /\ IsSpace(s[Len(s)]) THEN rstrip(SubSeq(s, 1, Len(s) - 1)) ELSE s

\* a query taken without .strip(): whitespace is kept
strip_keeps_whitespace(s) == s

\* str.strip(): leading and trailing whitespace removed
strip(s) == rstrip(lstrip(s))

\* ----------------------------------------------------------- JSON values
\* A JSON value is [t |-> tag, v |-> string content]; "absent" is a key
\* that the object does not have (dict.get returns its default).
JAbsent == [t |-> "absent", v |-> <<>>]
JNull   == [t |-> "null",   v |-> <<>>]
JZero   == [t |-> "number", v |-> <<"0">>]
JNum    == [t |-> "number", v |-> <<"12.9">>]
JList   == [t |-> "list",   v |-> <<"x">>]
JStr(s) == [t |-> "string", v |-> s]

\* Python truth value of a JSON value (None, 0, "", [] are falsy)
Falsy(j) ==
  \/ j.t \in {"absent", "null"}
  \/ j.t = "number" /\ j.v = <<"0">>
  \/ j.t \in {"string", "list"} /\ j.v = <<>>

QueryValues == {JAbsent, JNull, JNum, JList} \cup {JStr(s) : s \in Strings}
CoordValues == {JAbsent, JZero, JNum, JStr(<<"7", "7">>)}

\* A request body: kind is what the client sent, the three fields are the
\* keys of a JSON object (absent for every other kind).
NoFields(k) == [kind |-> k, query |-> JAbsent, lat |-> JAbsent, lon |-> JAbsent]

Bodies ==
  {NoFields(k) : k \in {"missing", "nonjson", "null", "empty_list", "list", "number"}}
  \cup [kind : {"object"}, query : QueryValues, lat : CoordValues, lon : CoordValues]

\* request.get_json(silent=True): None unless the body parses as JSON
get_json(body) == IF body.kind \in {"missing", "nonjson"} THEN NoFields("null") ELSE body

\* truth value of the parsed body (None, [], {} are falsy)
BodyFalsy(b) ==
  \/ b.kind \in {"null", "empty_list"}
  \/ b.kind = "object" /\ b.query = JAbsent /\ b.lat = JAbsent /\ b.lon = JAbsent

\* `request.get_json(silent=True) or {}`
parsed_or_empty(body) ==
  LET p == get_json(body) IN IF BodyFalsy(p) THEN NoFields("object") ELSE p

\* ------------------------------------------------------ upstream details
\* Text that only the upstream knows: exception messages, error bodies.
Details == {"upstream detail A", "upstream detail B"}

NoExc == [cls |-> "none", detail |-> "none"]
Exc(c, d) == [cls |-> c, detail |-> d]

\* --------------------------------------------------------------- weather
Absent == "<absent>"
NotJson == [json |-> FALSE, temp |-> Absent, hum |-> Absent, descs |-> <<>>]

WeatherBodies ==
  {NotJson} \cup
  [json : {TRUE}, temp : {Absent, "31.2"}, hum : {Absent, "48"},
   descs : {<<>>, <<"haze">>}]

\* What requests.get did: a transport failure, or a reply with a status.
WeatherOutcomes ==
  [net : {"ConnectionError", "Timeout"}, status : {0}, body : {NotJson}, detail : Details]
  \cup [net : {"ok"}, status : {404, 503}, body : {NotJson}, detail : Details]
  \cup [net : {"ok"}, status : {200, 300}, body : WeatherBodies, detail : {"none"}]

\* Response.raise_for_status(): raises HTTPError for 4xx and 5xx only
raise_for_status(r) == r.status >= 400 /\ r.status < 600

NOT_PROVIDED == <<"Weather data not available (location not provided).">>
UNAVAILABLE  == <<"Weather service unavailable.">>

Live(temp, desc, hum) ==
  <<"Current weather: ", temp, "°C, ", desc, ", humidity ", hum, "%.">>

\* The body of the try block of get_weather_data: the value, or the
\* exception that left the block.
weather_try(wx) ==
  IF wx.net # "ok" THEN [exc |-> Exc(wx.net, wx.detail), val |-> <<>>]
  ELSE IF raise_for_status(wx) THEN [exc |-> Exc("HTTPError", wx.detail), val |-> <<>>]
  ELSE IF ~wx.body.json THEN [exc |-> Exc("JSONDecodeError", "none"), val |-> <<>>]
  ELSE IF wx.body.temp = Absent THEN [exc |-> Exc("KeyError", "temp"), val |-> <<>>]
  ELSE IF wx.body.descs = <<>> THEN [exc |-> Exc("IndexError", "weather"), val |-> <<>>]
  ELSE IF wx.body.hum = Absent THEN [exc |-> Exc("KeyError", "humidity"), val |-> <<>>]
  ELSE [exc |-> NoExc, val |-> Live(wx.body.temp, wx.body.descs[1], wx.body.hum)]

\* The except clause of get_weather_data: print the cause, return the fallback
weather_except(e, calls) ==
  [exc |-> NoExc, val |-> UNAVAILABLE, calls |-> calls,
   log |-> <<<<"Weather error:", e.detail>>>>]

\* get_weather_data with the provider asked again after a failure
get_weather_data_retry(lat, lon, wx) ==
  IF Falsy(lat) \/ Falsy(lon)
  THEN [exc |-> NoExc, val |-> NOT_PROVIDED, calls |-> <<>>, log |-> <<>>]
  ELSE LET t == weather_try(wx)
       IN IF t.exc # NoExc
          THEN weather_except(t.exc, <<"weather", "weather">>)
          ELSE [exc |-> NoExc, val |-> t.val, calls |-> <<"weather">>, log |-> <<>>]

\* get_weather_data without the try block: the exception reaches the caller
get_weather_data_raises(lat, lon, wx) ==
  IF Falsy(lat) \/ Falsy(lon)
  THEN [exc |-> NoExc, val |-> NOT_PROVIDED, calls |-> <<>>, log |-> <<>>]
  ELSE LET t == weather_try(wx)
       IN [exc |-> t.exc, val |-> t.val, calls |-> <<"weather">>, log |-> <<>>]

\* get_weather_data(lat, lon): exc is the exception that reaches the caller,
\* val the returned string, calls the outbound calls made, log what was printed
get_weather_data(lat, lon, wx) ==
  IF Falsy(lat) \/ Falsy(lon)
  THEN [exc |-> NoExc, val |-> NOT_PROVIDED, calls |-> <<>>, log |-> <<>>]
  ELSE LET t == weather_try(wx)
       IN IF t.exc # NoExc
          THEN weather_except(t.exc, <<"weather">>)
          ELSE [exc |-> NoExc, val |-> t.val, calls |-> <<"weather">>, log |-> <<>>]

\* ------------------------------------------------------------------ chat
ChatTexts == {<<"Likely nitrogen deficiency...">>, <<" ", "Water less.", " ">>}

\* What openai.chat.completions.create did: a completion, a completion with
\* an empty choices list, or an exception of the SDK.
ChatOutcomes ==
  [kind : {"ok"}, text : ChatTexts, detail : {"none"}]
  \cup [kind : {"no_choices"}, text : {<<>>}, detail : {"none"}]
  \cup [kind : {"APIError", "APITimeoutError"}, text : {<<>>}, detail : Details]

\* ask_openai that answers with empty text instead of raising
ask_openai_swallows(system_msg, user_msg, chat) ==
  IF chat.kind = "ok"
  THEN [exc |-> NoExc, val |-> chat.text, calls |-> <<"chat">>]
  ELSE [exc |-> NoExc, val |-> <<>>, calls |-> <<"chat">>]

\* ask_openai(system_msg, user_msg): one call, the first choice's content
ask_openai(system_msg, user_msg, chat) ==
  IF chat.kind = "ok"
  THEN [exc |-> NoExc, val |-> chat.text, calls |-> <<"chat">>]
  ELSE IF chat.kind = "no_choices"
  THEN [exc |-> Exc("IndexError", "none"), val |-> <<>>, calls |-> <<"chat">>]
  ELSE [exc |-> Exc(chat.kind, chat.detail), val |-> <<>>, calls |-> <<"chat">>]

\* ------------------------------------------------------------- responses
\* A response: the status and the JSON body.  key is the body's top-level
\* key ("error", "answer", "plant" for the three identification fields,
\* "html" for the framework's own error page).
NoResponse == [status |-> 0, key |-> "none", text |-> <<>>, common |-> <<>>, confidence |-> 0]

ErrorResponse(msg, st) ==
  [status |-> st, key |-> "error", text |-> <<msg>>, common |-> <<>>, confidence |-> 0]

AnswerResponse(answer) ==
  [status |-> 200, key |-> "answer", text |-> answer, common |-> <<>>, confidence |-> 0]

PlantResponse(sci, common, conf) ==
  [status |-> 200, key |-> "plant", text |-> <<sci>>, common |-> common, confidence |-> conf]

NoWeather == [called |-> FALSE, exc |-> NoExc, val |-> <<>>]

\* What one handled request left behind.
Outcome(r, c, p, w, l) == [resp |-> r, calls |-> c, prompt |-> p, weather |-> w, log |-> l]

\* An exception that no handler code catches: Flask answers 500 with its
\* own page (data.get on a non-object body, .strip() on a non-string query).
unhandled(e) ==
  Outcome([status |-> 500, key |-> "html", text |-> <<"Internal Server Error">>,
           common |-> <<>>, confidence |-> 0],
          <<>>, <<>>, NoWeather, <<>>)

\* ------------------------------------------------------------------ /ask
ASK_SYSTEM == "You are a friendly, practical gardening expert. ..."

\* the except clause of ask with the exception text put in the body
ask_except_leaks(e) == ErrorResponse(e.detail, 500)

\* the except clause of ask
ask_except(e) == ErrorResponse("AI response failed.", 500)

ask_prompt(weather, query) == weather \o <<"\n\nUser question: ">> \o query

\* The try block of ask: weather, prompt, chat call, response
ask_try(query, lat, lon, wx, chat) ==
  LET w == get_weather_data(lat, lon, wx)
      seen == [called |-> TRUE, exc |-> w.exc, val |-> w.val]
  IN IF w.exc # NoExc
     THEN Outcome(ask_except(w.exc), w.calls, <<>>, seen,
                  w.log \o <<<<"OpenAI /ask error:", w.exc.detail>>>>)
     ELSE LET prompt == ask_prompt(w.val, query)
              a == ask_openai(ASK_SYSTEM, prompt, chat)
          IN IF a.exc # NoExc
             THEN Outcome(ask_except(a.exc), w.calls \o a.calls, prompt, seen,
                          w.log \o <<<<"OpenAI /ask error:", a.exc.detail>>>>)
             ELSE Outcome(AnswerResponse(a.val), w.calls \o a.calls, prompt, seen, w.log)

\* POST /ask
ask_handler(body, wx, chat) ==
  LET data == parsed_or_empty(body)
  IN IF data.kind # "object" THEN unhandled(Exc("AttributeError", "get"))
     ELSE IF data.query.t \notin {"absent", "string"}
     THEN unhandled(Exc("AttributeError", "strip"))
     ELSE LET query == strip(data.query.v)
          IN IF query = <<>>
             THEN Outcome(ErrorResponse("No query provided.", 400),
                          <<>>, <<>>, NoWeather, <<>>)
             ELSE ask_try(query, data.lat, data.lon, wx, chat)

\* ------------------------------------------------------------- /diagnose
DIAGNOSE_SYSTEM == "You are a plant pathology expert for home gardeners. Keep it simple and safe."

\* the prompt of diagnose with the weather string left out
diagnose_prompt_no_weather(weather, desc) ==
  <<"User observation: ">> \o desc
  \o <<"\n\n", "Return a short diagnosis with: ...">>

diagnose_prompt(weather, desc) ==
  weather \o <<"\n\nUser observation: ">> \o desc
  \o <<"\n\n", "Return a short diagnosis with: ...">>

\* the except clause of diagnose
diagnose_except(e) == ErrorResponse("Diagnosis failed.", 500)

\* The try block of diagnose: weather, prompt, chat call, response
diagnose_try(desc, lat, lon, wx, chat) ==
  LET w == get_weather_data(lat, lon, wx)
      seen == [called |-> TRUE, exc |-> w.exc, val |-> w.val]
  IN IF w.exc # NoExc
     THEN Outcome(diagnose_except(w.exc), w.calls, <<>>, seen,
                  w.log \o <<<<"OpenAI /diagnose error:", w.exc.detail>>>>)
     ELSE LET prompt == diagnose_prompt(w.val, desc)
              a == ask_openai(DIAGNOSE_SYSTEM, prompt, chat)
          IN IF a.exc # NoExc
             THEN Outcome(diagnose_except(a.exc), w.calls \o a.calls, prompt, seen,
                          w.log \o <<<<"OpenAI /diagnose error:", a.exc.detail>>>>)
             ELSE Outcome(AnswerResponse(a.val), w.calls \o a.calls, prompt, seen, w.log)

\* POST /diagnose
diagnose_handler(body, wx, chat) ==
  LET data == parsed_or_empty(body)
  IN IF data.kind # "object" THEN unhandled(Exc("AttributeError", "get"))
     ELSE IF data.query.t \notin {"absent", "string"}
     THEN unhandled(Exc("AttributeError", "strip"))
     ELSE LET desc == strip(data.query.v)
          IN IF desc = <<>>
             THEN Outcome(ErrorResponse("No description provided.", 400),
                          <<>>, <<>>, NoWeather, <<>>)
             ELSE diagnose_try(desc, data.lat, data.lon, wx, chat)

\* ------------------------------------------------------------- /identify
\* request.files: no "image" field, or an uploaded file with its filename
Images == {[field |-> FALSE, filename |-> ""],
           [field |-> TRUE,  filename |-> ""],
           [field |-> TRUE,  filename |-> "leaf.jpg"]}

\* A score of the upstream payload: absent, a number (in units of 10^-5),
\* or a value float() rejects.
NoScore     == [t |-> "absent", n |-> 0]
BadScore    == [t |-> "string", n |-> 0]
NumScore(n) == [t |-> "number", n |-> n]
Scores == {NoScore, BadScore, NumScore(87342)}

None == "<None>"

\* The species object of a result entry (has |-> FALSE: the entry has no
\* "species" key); a name is absent, the empty string or a name.
NoSpecies == [has |-> FALSE, primary |-> Absent, alternate |-> Absent, commonNames |-> <<Absent>>]

Species ==
  {NoSpecies} \cup
  [has : {TRUE}, primary : {Absent, "", "Rosa canina"},
   alternate : {Absent, "Rosa canina L."},
   commonNames : {<<Absent>>, <<"dog rose">>}]

Entries == [species : Species, score : Scores]

ResultLists == UNION {[1..n -> Entries] : n \in 0..MaxResults}

\* The JSON body of a PlantNet reply: not JSON, JSON that is not an object,
\* or an object whose "results" key is absent or a list.
PlantBodies ==
  [shape : {"notjson", "list"}, has_results : {FALSE}, results : {<<>>}]
  \cup [shape : {"object"}, has_results : {FALSE}, results : {<<>>}]
  \cup [shape : {"object"}, has_results : {TRUE}, results : ResultLists]

ErrorPage == [shape |-> "notjson", has_results |-> FALSE, results |-> <<>>]

\* What requests.post did
PlantOutcomes ==
  [net : {"ConnectionError", "Timeout"}, status : {0}, body : {ErrorPage}, detail : Details]
  \cup [net : {"ok"}, status : {404, 503}, body : {ErrorPage}, detail : Details]
  \cup [net : {"ok"}, status : {200, 300}, body : PlantBodies, detail : {"none"}]

\* dict.get(key): None when the key is absent
dict_get(value) == IF value = Absent THEN None ELSE value

\* Python truth value of a name (None and "" are falsy)
NameFalsy(name) == name \in {None, ""}

\* the name taken from the alternate field first
scientific_name_alternate_first(species) ==
  IF ~NameFalsy(dict_get(species.alternate))
  THEN dict_get(species.alternate)
  ELSE dict_get(species.primary)

\* species.get("scientificNameWithoutAuthor") or species.get("scientificName")
scientific_name(species) ==
  IF ~NameFalsy(dict_get(species.primary))
  THEN dict_get(species.primary)
  ELSE dict_get(species.alternate)

\* species.get("commonNames", [])
common_names(species) ==
  IF species.commonNames = <<Absent>> THEN <<>> ELSE species.commonNames

\* top.get("score", 0)
score_of(top) == IF top.score.t = "absent" THEN NumScore(0) ELSE top.score

\* round(float(score) * 100, 2), in units of 10^-2 percent
confidence(score) == (score.n + 5) \div 10

\* `not result.get("results")` that only notices a missing key
no_results_absent_only(result) == ~result.has_results

\* `not result.get("results")`: the key is absent or the list is empty
no_results(result) == ~result.has_results \/ result.results = <<>>

\* both except clauses of identify answering 500
identify_except_generic(e) == ErrorResponse("Plant identification failed.", 500)

\* the except clauses of identify: requests.HTTPError first, then Exception
identify_except(e) ==
  IF e.cls = "HTTPError"
  THEN ErrorResponse("PlantNet API error.", 502)
  ELSE ErrorResponse("Plant identification failed.", 500)

identify_log(e) ==
  IF e.cls = "HTTPError"
  THEN <<<<"PlantNet HTTP error:", e.detail>>>>
  ELSE <<<<"PlantNet general error:", e.detail>>>>

\* The try block of identify: the response, or the exception that left it
identify_try(pn) ==
  IF pn.net # "ok" THEN [exc |-> Exc(pn.net, pn.detail), resp |-> NoResponse]
  ELSE IF raise_for_status(pn) THEN [exc |-> Exc("HTTPError", pn.detail), resp |-> NoResponse]
  ELSE IF pn.body.shape = "notjson" THEN [exc |-> Exc("JSONDecodeError", "none"), resp |-> NoResponse]
  ELSE IF pn.body.shape # "object" THEN [exc |-> Exc("AttributeError", "get"), resp |-> NoResponse]
  ELSE IF no_results(pn.body)
  THEN [exc |-> NoExc, resp |-> ErrorResponse("No plant identified. Try a clearer photo.", 404)]
  ELSE IF pn.body.results = <<>> THEN [exc |-> Exc("IndexError", "results"), resp |-> NoResponse]
  ELSE LET top == pn.body.results[1]
       IN IF ~top.species.has THEN [exc |-> Exc("KeyError", "species"), resp |-> NoResponse]
          ELSE IF score_of(top).t # "number"
          THEN [exc |-> Exc("ValueError", "float"), resp |-> NoResponse]
          ELSE [exc |-> NoExc,
                resp |-> PlantResponse(scientific_name(top.species),
                                       common_names(top.species),
                                       confidence(score_of(top)))]

\* POST /identify
identify_handler(image, pn) ==
  IF ~image.field
  THEN Outcome(ErrorResponse("No image file uploaded.", 400), <<>>, <<>>, NoWeather, <<>>)
  ELSE IF image.filename = ""
  THEN Outcome(ErrorResponse("Empty filename.", 400), <<>>, <<>>, NoWeather, <<>>)
  ELSE LET t == identify_try(pn)
       IN IF t.exc # NoExc
          THEN Outcome(identify_except(t.exc), <<"plantnet">>, <<>>, NoWeather,
                       identify_log(t.exc))
          ELSE Outcome(t.resp, <<"plantnet">>, <<>>, NoWeather, <<>>)

\* ---------------------------------------------------------------- state
VARIABLES
  op,        \* the operation of the request handled last ("none" at start)
  body,      \* its JSON body (/ask, /diagnose)
  image,     \* its uploaded file (/identify)
  wx,        \* what the weather provider does when called
  chat,      \* what the chat API does when called
  pn,        \* what PlantNet does when called
  out        \* what the handler did: response, calls, prompt, weather, log

vars == <<op, body, image, wx, chat, pn, out>>

NoBody  == NoFields("missing")
NoImage == [field |-> FALSE, filename |-> ""]
NoWx    == [net |-> "ok", status |-> 200, body |-> NotJson, detail |-> "none"]
NoChat  == [kind |-> "no_choices", text |-> <<>>, detail |-> "none"]
NoPn    == [net |-> "ok", status |-> 200, body |-> ErrorPage, detail |-> "none"]

Init ==
  /\ op = "none"
  /\ body = NoBody
  /\ image = NoImage
  /\ wx = NoWx
  /\ chat = NoChat
  /\ pn = NoPn
  /\ out = Outcome(NoResponse, <<>>, <<>>, NoWeather, <<>>)

ask ==
  /\ op = "none"
  /\ \E b \in Bodies, w \in WeatherOutcomes, c \in ChatOutcomes :
       /\ op' = "ask"
       /\ body' = b
       /\ wx' = w
       /\ chat' = c
       /\ image' = NoImage
       /\ pn' = NoPn
       /\ out' = ask_handler(b, w, c)

diagnose ==
  /\ op = "none"
  /\ \E b \in Bodies, w \in WeatherOutcomes, c \in ChatOutcomes :
       /\ op' = "diagnose"
       /\ body' = b
       /\ wx' = w
       /\ chat' = c
       /\ image' = NoImage
       /\ pn' = NoPn
       /\ out' = diagnose_handler(b, w, c)

identify ==
  /\ op = "none"
  /\ \E i \in Images, p \in PlantOutcomes :
       /\ op' = "identify"
       /\ image' = i
       /\ pn' = p
       /\ body' = NoBody
       /\ wx' = NoWx
       /\ chat' = NoChat
       /\ out' = identify_handler(i, p)

\* The response is sent and the request's data discarded: nothing outlives
\* the request, and the next request starts from the same state.
respond ==
  /\ op # "none"
  /\ op' = "none"
  /\ body' = NoBody
  /\ image' = NoImage
  /\ wx' = NoWx
  /\ chat' = NoChat
  /\ pn' = NoPn
  /\ out' = Outcome(NoResponse, <<>>, <<>>, NoWeather, <<>>)

Next == ask \/ diagnose \/ identify \/ respond

Spec == Init /\ [][Next]_vars

\* ------------------------------------------------- vocabulary of the claims
\* sub occurs in s as a contiguous run (Python: sub in s)
Contains(sub, s) ==
  \E i \in 1..(Len(s) + 1) :
     /\ i + Len(sub) - 1 <= Len(s)
     /\ SubSeq(s, i, i + Len(sub) - 1) = sub

AllSpaces(s) == \A i \in 1..Len(s) : s[i] = " "

\* the text between the first and the last character that is not a space
Trimmed(s) ==
  IF AllSpaces(s) THEN <<>>
  ELSE LET first == CHOOSE i \in 1..Len(s) : s[i] # " " /\ \A k \in 1..(i - 1) : s[k] = " "
           last  == CHOOSE j \in 1..Len(s) : s[j] # " " /\ \A k \in (j + 1)..Len(s) : s[k] = " "
       IN SubSeq(s, first, last)

Advising == op \in {"ask", "diagnose"}

\* the body is a JSON object whose query is a string, non-empty once trimmed
ValidQuery == body.kind = "object" /\ body.query.t = "string" /\ ~AllSpaces(body.query.v)

\* the body fails validation: no body, not JSON, or a JSON object whose
\* query is missing or is a string that is empty once trimmed
InvalidText ==
  \/ body.kind \in {"missing", "nonjson"}
  \/ /\ body.kind = "object"
     /\ \/ body.query = JAbsent
        \/ body.query.t = "string" /\ AllSpaces(body.query.v)

InvalidImage == ~image.field \/ image.filename = ""

CoordsMissing == Falsy(body.lat) \/ Falsy(body.lon)

\* the weather provider fails: no reply, an error status, or a body without
\* one of the three expected fields
ProviderFails ==
  \/ wx.net # "ok"
  \/ wx.status >= 400
  \/ ~wx.body.json
  \/ wx.body.temp = Absent \/ wx.body.hum = Absent \/ wx.body.descs = <<>>

IsLive(v) ==
  /\ Len(v) = 7
  /\ v[1] = "Current weather: "
  /\ v[2] = wx.body.temp /\ v[4] = wx.body.descs[1] /\ v[6] = wx.body.hum

GenericError ==
  IF op = "ask" THEN <<"AI response failed.">> ELSE <<"Diagnosis failed.">>

\* C1: a request that fails input validation is answered 400 and no
\* outbound call is made while handling it.
C1_InvalidIs400NoCalls ==
  /\ (Advising /\ InvalidText) => (out.resp.status = 400 /\ out.calls = <<>>)
  /\ (op = "identify" /\ InvalidImage) => (out.resp.status = 400 /\ out.calls = <<>>)

C1_Witness ==
  /\ op = "ask" /\ body.kind = "object"
  /\ body.query = JStr(<<" ", " ">>)
  /\ ~CoordsMissing
  /\ out.resp = ErrorResponse("No query provided.", 400)

\* C2: get_weather_data never raises and returns a non-empty string that is
\* the "location not provided" message, the "Weather service unavailable."
\* message or the formatted live summary.
C2_WeatherNeverRaises ==
  out.weather.called =>
    /\ out.weather.exc = NoExc
    /\ out.weather.val # <<>>
    /\ \/ out.weather.val = NOT_PROVIDED
       \/ out.weather.val = UNAVAILABLE
       \/ ~ProviderFails /\ IsLive(out.weather.val)

C2_Witness ==
  /\ out.weather.called
  /\ ~CoordsMissing
  /\ wx.net = "ok" /\ wx.status = 200 /\ wx.body.json /\ wx.body.temp = Absent
  /\ out.weather.val = UNAVAILABLE

\* C3: a /diagnose request with a non-empty trimmed description whose
\* weather lookup degrades and whose chat call succeeds is answered 200 with
\* the chat answer, and the prompt given to the chat call contains the
\* fallback weather string and the description.
C3_WeatherNeverBlocksDiagnosis ==
  (op = "diagnose" /\ ValidQuery /\ (CoordsMissing \/ ProviderFails) /\ chat.kind = "ok") =>
    /\ out.resp = AnswerResponse(chat.text)
    /\ out.weather.val \in {NOT_PROVIDED, UNAVAILABLE}
    /\ Contains(out.weather.val, out.prompt)
    /\ Contains(Trimmed(body.query.v), out.prompt)

C3_Witness ==
  /\ op = "diagnose" /\ ValidQuery /\ ~CoordsMissing
  /\ wx.net = "Timeout" /\ chat.kind = "ok"
  /\ out.resp.status = 200
  /\ Contains(UNAVAILABLE, out.prompt)

\* C6: for /ask and /diagnose with a non-empty trimmed query the chat call
\* alone decides the status: 500 with the generic message when it fails, 200
\* with the chat text unmodified when it succeeds.
C6_ChatDecidesStatus ==
  (Advising /\ ValidQuery) =>
    /\ chat.kind # "ok" =>
         /\ out.resp.status = 500 /\ out.resp.key = "error"
         /\ out.resp.text = GenericError
    /\ chat.kind = "ok" => out.resp = AnswerResponse(chat.text)

C6_Witness ==
  /\ op = "ask" /\ ValidQuery
  /\ wx.net = "ConnectionError" /\ ~CoordsMissing
  /\ chat.kind = "APITimeoutError"
  /\ out.resp.status = 500

\* C9: one /ask or /diagnose request that passes validation calls the
\* weather provider zero times when a coordinate is missing or falsy and
\* once otherwise, then calls the chat API once, and calls nothing again;
\* one /identify request calls PlantNet at most once.
C9_LinearPipeline ==
  /\ (Advising /\ ValidQuery) =>
       out.calls = (IF CoordsMissing THEN <<>> ELSE <<"weather">>) \o <<"chat">>
  /\ op = "identify" => out.calls \in {<<>>, <<"plantnet">>}

C9_Witness ==
  /\ op = "diagnose" /\ ValidQuery /\ ~CoordsMissing
  /\ wx.net = "ok" /\ wx.status = 503
  /\ chat.kind = "APIError"
  /\ out.calls = <<"weather", "chat">>

\* C10: every /ask or /diagnose request without a query string that is
\* non-empty after trimming is answered 400.
C10_NoValidQueryIs400 ==
  (Advising /\ ~ValidQuery) => out.resp.status = 400

\* ---- /identify
\* the upload passed validation and PlantNet was asked
Identifying == op = "identify" /\ ~InvalidImage

\* the payload is not what the handler reads: not JSON, not an object, or a
\* first entry without species or with a score that is not a number
Malformed(b) ==
  \/ b.shape # "object"
  \/ /\ b.has_results /\ b.results # <<>>
     /\ \/ ~b.results[1].species.has
        \/ b.results[1].score.t = "string"

TransportFailure == pn.net # "ok"
HttpErrorStatus  == pn.net = "ok" /\ pn.status >= 400 /\ pn.status < 600
Non2xxStatus     == pn.net = "ok" /\ (pn.status < 200 \/ pn.status > 299)

\* C4: a successful PlantNet answer whose result list is absent or empty is
\* answered 404, with a message that is neither the 502 nor the 500 message.
C4_NoMatchIs404 ==
  (/\ Identifying /\ pn.net = "ok" /\ pn.status = 200
   /\ pn.body.shape = "object"
   /\ (~pn.body.has_results \/ pn.body.results = <<>>)) =>
    /\ out.resp.status = 404
    /\ out.resp.key = "error"
    /\ out.resp.text # identify_except(Exc("HTTPError", "none")).text
    /\ out.resp.text # identify_except(Exc("Timeout", "none")).text

C4_Witness ==
  /\ Identifying /\ pn.net = "ok" /\ pn.status = 200
  /\ pn.body.shape = "object" /\ pn.body.has_results /\ pn.body.results = <<>>
  /\ out.resp.status = 404
  /\ out.calls = <<"plantnet">>

TopReadable ==
  /\ Identifying /\ pn.net = "ok" /\ ~HttpErrorStatus
  /\ pn.body.shape = "object" /\ pn.body.has_results /\ pn.body.results # <<>>
  /\ ~Malformed(pn.body)

Top == pn.body.results[1]

FieldOrNull(f) == IF f = Absent THEN None ELSE f

DefaultsApplied ==
  /\ Top.species.commonNames = <<Absent>> => out.resp.common = <<>>
  /\ Top.species.commonNames # <<Absent>> => out.resp.common = Top.species.commonNames
  /\ Top.score.t = "absent" => out.resp.confidence = 0

\* C7 as claimed: only the first entry is used; scientific_name is the
\* primary field when it is present and the alternate field when the primary
\* is absent; common_names defaults to empty and the score to 0.
C7_PrimaryWhenPresent ==
  TopReadable =>
    /\ out.resp.status = 200 /\ out.resp.key = "plant"
    /\ Top.species.primary # Absent => out.resp.text = <<Top.species.primary>>
    /\ Top.species.primary = Absent => out.resp.text = <<FieldOrNull(Top.species.alternate)>>
    /\ DefaultsApplied

\* C7 amended: scientific_name is the primary field when it is present and
\* not empty, and the alternate field (null when absent) otherwise.
C7_PrimaryWhenNonEmpty ==
  TopReadable =>
    /\ out.resp.status = 200 /\ out.resp.key = "plant"
    /\ Top.species.primary \notin {Absent, ""} => out.resp.text = <<Top.species.primary>>
    /\ Top.species.primary \in {Absent, ""} => out.resp.text = <<FieldOrNull(Top.species.alternate)>>
    /\ DefaultsApplied

C7_Witness ==
  /\ TopReadable /\ Len(pn.body.results) = 2
  /\ Top.species.primary = Absent /\ Top.species.alternate = "Rosa canina L."
  /\ pn.body.results[2].species.has /\ pn.body.results[2].species.primary = "Rosa canina"
  /\ Top.score.t = "absent"
  /\ out.resp = PlantResponse("Rosa canina L.", common_names(Top.species), 0)

\* The error bodies of each operation, by status.
FixedErrors ==
  IF op = "ask"
  THEN {ErrorResponse("No query provided.", 400), ErrorResponse("AI response failed.", 500)}
  ELSE IF op = "diagnose"
  THEN {ErrorResponse("No description provided.", 400), ErrorResponse("Diagnosis failed.", 500)}
  ELSE {ErrorResponse("No image file uploaded.", 400), ErrorResponse("Empty filename.", 400),
        ErrorResponse("No plant identified. Try a clearer photo.", 404),
        ErrorResponse("PlantNet API error.", 502),
        ErrorResponse("Plant identification failed.", 500)}

FrameworkErrorPage == unhandled(NoExc).resp

\* C8: the body of every non-200 response is one of the operation's constant
\* error messages (or the framework's constant error page), so nothing of the
\* upstream's error text reaches the caller.
C8_NoUpstreamDetail ==
  (op # "none" /\ out.resp.status # 200) =>
    /\ out.resp \in FixedErrors \cup {FrameworkErrorPage}
    /\ \A d \in Details : ~Contains(<<d>>, out.resp.text)

C8_Witness ==
  /\ op = "diagnose" /\ ValidQuery
  /\ chat.kind = "APIError" /\ chat.detail = "upstream detail B"
  /\ out.resp = ErrorResponse("Diagnosis failed.", 500)
  /\ out.log # <<>>

====
